---- MODULE Spec2Model ----
(***************************************************************************)
(* A model of the ElderTech voice-assistant backend:                       *)
(*   - the nightly FAQ clustering job (scripts/nightly_faq_clustering.py), *)
(*   - the AI gateway wrappers of services/openai.py,                      *)
(*   - text_to_speech of services/tts.py,                                  *)
(*   - validate_audio_format of services/whisper.py.                       *)
(* Numbers that are floats in the program are kept exact: a speed and a    *)
(* confidence are counted in hundredths, an average is a fraction.         *)
(***************************************************************************)
EXTENDS Integers, Sequences, FiniteSets, TLC

VARIABLES
    db,                 \* the rows of table faqs (services/db.py FAQ)
    run,                \* number of the current run of the job
    phase,              \* where run_clustering is
    faqs,               \* run_clustering: the loaded rows
    idx,                \* run_clustering: position of the for loop over faqs
    apos,               \* analyze_faq_content: next statement of the try block
    entities,           \* analyze_faq_content: local variable entities
    analyzed,           \* run_clustering: analyzed_faqs
    clusters,           \* FAQClusterer.clusters
    gaps,               \* FAQClusterer.gaps
    recommendations,    \* run_clustering: recommendations
    files,              \* the report files of the working directory, by name
    now,                \* the wall clock, in ticks
    calls,              \* history: the gateway calls made, in order
    raised,             \* history: ids of the FAQs whose analysis raised
    writes,             \* history: how often each report file was opened for writing
    tts,                \* one call of text_to_speech
    wav,                \* one call of validate_audio_format
    sent,               \* one call of analyze_sentiment
    conversation_history, \* ElderTechAssistant.conversation_history
    chat,               \* the get_response calls, by caller
    stt                 \* one request to POST /api/whisper/speech-to-text

vars == <<db, run, phase, faqs, idx, apos, entities, analyzed, clusters, gaps,
          recommendations, files, now, calls, raised, writes, tts, wav, sent,
          conversation_history, chat, stt>>

batchVars == <<db, run, phase, faqs, idx, apos, entities, analyzed, clusters, gaps,
               recommendations, files, now, calls, raised, writes>>

(***************************************************************************)
(* Bounds of the model.                                                    *)
(***************************************************************************)
MaxFaqs == 3
MaxListLen == 3
MaxCount == 7
MaxRuns == 2
MaxClock == 2
MaxCalls == 3
TicksPerSecond == 2

(***************************************************************************)
(* Sequences.                                                              *)
(***************************************************************************)
RECURSIVE SumOf(_)
SumOf(s) == IF s = <<>> THEN 0 ELSE Head(s) + SumOf(Tail(s))

RECURSIVE Copies(_, _)
Copies(x, n) == IF n = 0 THEN <<>> ELSE <<x>> \o Copies(x, n - 1)

Range(s) == {s[i] : i \in 1..Len(s)}

(***************************************************************************)
(* JSON text, as the list of its tokens, and json.loads on it.  A parse    *)
(* returns [ok, val, rest]; a value is a record tagged by t.               *)
(***************************************************************************)
NumberTokens == {"-1", "0", "0.5", "0.9", "1", "1.5"}

NumberOf(tok) ==
    CASE tok = "-1" -> -100
      [] tok = "0" -> 0
      [] tok = "0.5" -> 50
      [] tok = "0.9" -> 90
      [] tok = "1" -> 100
      [] tok = "1.5" -> 150

StringTokens == {"'sentiment'", "'confidence'", "'positive'", "'negative'",
                 "'neutral'", "'mixed'", "'entity'", "'Paris'"}

StringOf(tok) ==
    CASE tok = "'sentiment'" -> "sentiment"
      [] tok = "'confidence'" -> "confidence"
      [] tok = "'positive'" -> "positive"
      [] tok = "'negative'" -> "negative"
      [] tok = "'neutral'" -> "neutral"
      [] tok = "'mixed'" -> "mixed"
      [] tok = "'entity'" -> "entity"
      [] tok = "'Paris'" -> "Paris"

ParseFail == [ok |-> FALSE]

JStr(s) == [t |-> "str", s |-> s]
JNum(n) == [t |-> "num", n |-> n]
JArr(items) == [t |-> "array", items |-> items]
JObj(keys, get) == [t |-> "object", keys |-> keys, get |-> get]

RECURSIVE ParseValue(_)
RECURSIVE ParseElems(_, _)
RECURSIVE ParseMembers(_, _, _)

\* elements of an array after "[" or ","; acc holds the elements parsed so far
ParseElems(toks, acc) ==
    LET v == ParseValue(toks) IN
    IF ~v.ok \/ v.rest = <<>> THEN ParseFail
    ELSE IF Head(v.rest) = "]"
         THEN [ok |-> TRUE, val |-> JArr(Append(acc, v.val)), rest |-> Tail(v.rest)]
    ELSE IF Head(v.rest) = ","
         THEN ParseElems(Tail(v.rest), Append(acc, v.val))
    ELSE ParseFail

\* members of an object after "{" or ","; a repeated key keeps its last value
ParseMembers(toks, keys, get) ==
    IF Len(toks) < 3 \/ toks[1] \notin StringTokens \/ toks[2] # ":" THEN ParseFail
    ELSE LET k == StringOf(toks[1])
             v == ParseValue(SubSeq(toks, 3, Len(toks)))
         IN  IF ~v.ok \/ v.rest = <<>> THEN ParseFail
             ELSE LET keys2 == keys \cup {k}
                      get2 == [x \in keys2 |-> IF x = k THEN v.val ELSE get[x]]
                  IN  IF Head(v.rest) = "}"
                      THEN [ok |-> TRUE, val |-> JObj(keys2, get2), rest |-> Tail(v.rest)]
                      ELSE IF Head(v.rest) = ","
                      THEN ParseMembers(Tail(v.rest), keys2, get2)
                      ELSE ParseFail

ParseValue(toks) ==
    IF toks = <<>> THEN ParseFail
    ELSE LET h == Head(toks)
             r == Tail(toks)
         IN  IF h \in NumberTokens THEN [ok |-> TRUE, val |-> JNum(NumberOf(h)), rest |-> r]
             ELSE IF h \in StringTokens THEN [ok |-> TRUE, val |-> JStr(StringOf(h)), rest |-> r]
             ELSE IF h = "[" THEN
                 IF r # <<>> /\ Head(r) = "]"
                 THEN [ok |-> TRUE, val |-> JArr(<<>>), rest |-> Tail(r)]
                 ELSE ParseElems(r, <<>>)
             ELSE IF h = "{" THEN
                 IF r # <<>> /\ Head(r) = "}"
                 THEN [ok |-> TRUE, val |-> JObj({}, <<>>), rest |-> Tail(r)]
                 ELSE ParseMembers(r, {}, <<>>)
             ELSE ParseFail

\* json.loads: the whole text is one value, else ValueError
JsonLoads(toks) ==
    LET v == ParseValue(toks) IN
    IF v.ok /\ v.rest = <<>> THEN [ok |-> TRUE, val |-> v.val] ELSE ParseFail

(***************************************************************************)
(* The chat-completion API as the gateway sees it: the call raises, or     *)
(* answers with a list of choices whose first message content is a text.   *)
(***************************************************************************)
ApiRaise == [kind |-> "raise"]
ApiNoChoice == [kind |-> "nochoice"]
ApiReply(content) == [kind |-> "reply", content |-> content]

SentimentJson(label, conf) ==
    <<"{", "'sentiment'", ":", label, ",", "'confidence'", ":", conf, "}">>

EntityJson == <<"[", "{", "'entity'", ":", "'Paris'", "}", "]">>

SentimentFallback ==
    [t |-> "object", keys |-> {"sentiment", "confidence", "error"},
     get |-> [k \in {"sentiment", "confidence", "error"} |->
                CASE k = "sentiment" -> JStr("neutral")
                  [] k = "confidence" -> JNum(50)
                  [] k = "error" -> JStr("str(e)")]]

\* analyze_sentiment: the parsed reply as it is, the fallback on any exception
analyze_sentiment(api) ==
    IF api.kind # "reply" THEN SentimentFallback
    ELSE LET r == JsonLoads(api.content) IN
         IF r.ok THEN r.val ELSE SentimentFallback

\* extract_entities: the parsed reply as it is, the empty list on any exception
extract_entities(api) ==
    IF api.kind # "reply" THEN JArr(<<>>)
    ELSE LET r == JsonLoads(api.content) IN
         IF r.ok THEN r.val ELSE JArr(<<>>)

(***************************************************************************)
(* The rows of table faqs.  Every column but id is nullable             *)
(* (services/db.py); question and answer are Text, priority an Integer.    *)
(***************************************************************************)
Null == "NULL"

Categories == {"A", "a", "B"}
Priorities == {1, 2, 5}
Questions == {"q", Null}

FaqRow(i, q, c, p) == [id |-> i, question |-> q, answer |-> "ans", category |-> c, priority |-> p]

\* the tables of at most n rows, ids in key order
Tables(n, cats, prios) ==
    UNION {{[i \in 1..k |-> FaqRow(i, f[i][1], f[i][2], f[i][3])] :
               f \in [1..k -> Questions \X cats \X prios]} : k \in 0..n}

\* faq.question + " " + faq.answer: str + None raises TypeError
ConcatRaises(faq) == faq.question = Null \/ faq.answer = Null

(***************************************************************************)
(* An analyzed FAQ (analyze_faq_content's dict), or None.                  *)
(***************************************************************************)
NoAnalysis == [none |-> TRUE]

IsNone(a) == "none" \in DOMAIN a

Analysis(faq, ents, senti) ==
    [id |-> faq.id, question |-> faq.question, answer |-> faq.answer,
     category |-> faq.category, entities |-> ents, sentiment |-> senti,
     priority |-> faq.priority]

(***************************************************************************)
(* create_clusters: a dict keyed by category, in insertion order.          *)
(***************************************************************************)
Frac(n, d) == [num |-> n, den |-> d]

\* the categories of the list in order of first occurrence (the dict's keys)
RECURSIVE DictKeys(_, _)
DictKeys(list, keys) ==
    IF list = <<>> THEN keys
    ELSE LET faq == Head(list) IN
         IF IsNone(faq) THEN DictKeys(Tail(list), keys)
         ELSE IF faq.category \in Range(keys) THEN DictKeys(Tail(list), keys)
         ELSE DictKeys(Tail(list), Append(keys, faq.category))

\* the dict's value for one category: the FAQs appended to its list, in order
RECURSIVE DictValue(_, _)
DictValue(list, category) ==
    IF list = <<>> THEN <<>>
    ELSE LET faq == Head(list) IN
         IF ~IsNone(faq) /\ faq.category = category
         THEN <<faq>> \o DictValue(Tail(list), category)
         ELSE DictValue(Tail(list), category)

PrioritiesOf(list) == [i \in 1..Len(list) |-> list[i].priority]

AvgPriorityFloor(members) == Frac(SumOf(PrioritiesOf(members)) \div Len(members), 1)

\* sum(f["priority"] for f in faqs) / len(faqs)
AvgPriority(members) == Frac(SumOf(PrioritiesOf(members)), Len(members))

Cluster(category, members) ==
    [name |-> category, faqs |-> members, count |-> Len(members),
     avg_priority |-> AvgPriority(members)]

\* as create_clusters, but with a cluster for each known category, used or not
create_clusters_every_category(list) ==
    LET keys == <<"A", "B">> IN
    [i \in 1..Len(keys) |-> Cluster(keys[i], DictValue(list, keys[i]))]

create_clusters(list) ==
    LET keys == DictKeys(list, <<>>) IN
    [i \in 1..Len(keys) |-> Cluster(keys[i], DictValue(list, keys[i]))]

(***************************************************************************)
(* identify_gaps: two passes over the clusters.                            *)
(***************************************************************************)
CoverageMin == 3
RecommendedMin == 5
PriorityLimit == 2
PriorityMinCount == 5

FracLess(f, n) == f.num < n * f.den

LowCoverageNonStrict(cluster) == cluster.count <= CoverageMin

\* cluster["count"] < 3
LowCoverage(cluster) == cluster.count < CoverageMin

LowPriorityIgnoresCount(cluster) == FracLess(cluster.avg_priority, PriorityLimit)

\* cluster["avg_priority"] < 2 and cluster["count"] > 5
LowPriority(cluster) ==
    FracLess(cluster.avg_priority, PriorityLimit) /\ cluster.count > PriorityMinCount

CoverageGap(cluster) ==
    [type |-> "low_coverage", category |-> cluster.name,
     current_count |-> cluster.count, recommended_min |-> RecommendedMin,
     description |-> [tmpl |-> "has only", name |-> cluster.name, count |-> cluster.count]]

PriorityGap(cluster) ==
    [type |-> "low_priority", category |-> cluster.name,
     avg_priority |-> cluster.avg_priority,
     description |-> [tmpl |-> "has low priority FAQs", name |-> cluster.name]]

RECURSIVE CoveragePass(_)
CoveragePass(cs) ==
    IF cs = <<>> THEN <<>>
    ELSE (IF LowCoverage(Head(cs)) THEN <<CoverageGap(Head(cs))>> ELSE <<>>)
         \o CoveragePass(Tail(cs))

RECURSIVE PriorityPass(_)
PriorityPass(cs) ==
    IF cs = <<>> THEN <<>>
    ELSE (IF LowPriority(Head(cs)) THEN <<PriorityGap(Head(cs))>> ELSE <<>>)
         \o PriorityPass(Tail(cs))

\* as identify_gaps, but both rules in one pass over the clusters
RECURSIVE identify_gaps_one_pass(_)
identify_gaps_one_pass(cs) ==
    IF cs = <<>> THEN <<>>
    ELSE (IF LowCoverage(Head(cs)) THEN <<CoverageGap(Head(cs))>> ELSE <<>>)
         \o (IF LowPriority(Head(cs)) THEN <<PriorityGap(Head(cs))>> ELSE <<>>)
         \o identify_gaps_one_pass(Tail(cs))

identify_gaps(cs) == CoveragePass(cs) \o PriorityPass(cs)

(***************************************************************************)
(* generate_recommendations: one sentence per gap of a known type.         *)
(***************************************************************************)
\* format(x, ".1f") of the average: tenths, ties to even
Format1f(f) ==
    LET q == (10 * f.num) \div f.den
        r == (10 * f.num) % f.den
    IN  IF 2 * r > f.den THEN q + 1
        ELSE IF 2 * r = f.den /\ q % 2 = 1 THEN q + 1
        ELSE q

\* as Recommendation, with the two counts of a low_coverage gap exchanged
RecommendationSwapsCounts(gap) ==
    IF gap.type = "low_coverage"
    THEN [tmpl |-> "Add more FAQs to category", category |-> gap.category,
          currently |-> gap.recommended_min, recommend |-> gap.current_count]
    ELSE [tmpl |-> "Review and prioritize FAQs in category", category |-> gap.category,
          average_priority |-> Format1f(gap.avg_priority)]

Recommendation(gap) ==
    IF gap.type = "low_coverage"
    THEN [tmpl |-> "Add more FAQs to category", category |-> gap.category,
          currently |-> gap.current_count, recommend |-> gap.recommended_min]
    ELSE [tmpl |-> "Review and prioritize FAQs in category", category |-> gap.category,
          average_priority |-> Format1f(gap.avg_priority)]

RECURSIVE generate_recommendations(_)
generate_recommendations(gs) ==
    IF gs = <<>> THEN <<>>
    ELSE (IF Head(gs).type \in {"low_coverage", "low_priority"}
          THEN <<Recommendation(Head(gs))>> ELSE <<>>)
         \o generate_recommendations(Tail(gs))

(***************************************************************************)
(* save_results: the report and its file name.                             *)
(***************************************************************************)
CountsOf(cs) == [i \in 1..Len(cs) |-> cs[i].count]

SummaryCountsClusters(cs, gs) ==
    [total_faqs |-> Len(cs), total_clusters |-> Len(cs), total_gaps |-> Len(gs)]

Summary(cs, gs) ==
    [total_faqs |-> SumOf(CountsOf(cs)), total_clusters |-> Len(cs), total_gaps |-> Len(gs)]

Report(t, cs, gs, recs) ==
    [timestamp |-> t, clusters |-> cs, gaps |-> gs, recommendations |-> recs,
     summary |-> Summary(cs, gs)]

\* strftime('%Y%m%d_%H%M%S'): the clock cut to whole seconds
FileName(t) == t \div TicksPerSecond

FileNames == 0..(MaxClock \div TicksPerSecond)

NoFile == [state |-> "absent"]

(***************************************************************************)
(* The nightly job: FAQClusterer.run_clustering, one action per step.      *)
(***************************************************************************)
Off == [pc |-> "off"]

\* what the completion API may answer to the two analysis prompts
EntityApis == {ApiRaise, ApiReply(EntityJson), ApiReply(<<"[">>)}
SentimentApis == {ApiRaise, ApiReply(SentimentJson("'positive'", "0.9"))}

\* whether the gateway call behind a wrapper failed (it raised inside the wrapper)
CallFailed(api) == api.kind # "reply" \/ ~JsonLoads(api.content).ok

FreshRun ==
    /\ phase = "Idle"
    /\ faqs = <<>>
    /\ idx = 1
    /\ apos = "entities"
    /\ entities = JArr(<<>>)
    /\ analyzed = <<>>
    /\ clusters = <<>>
    /\ gaps = <<>>
    /\ recommendations = <<>>
    /\ calls = <<>>
    /\ raised = {}

OthersOff ==
    /\ tts = Off
    /\ wav = Off
    /\ sent = Off
    /\ conversation_history = <<>>
    /\ chat = Off
    /\ stt = Off

\* run_clustering up to "Loading FAQs from database..."
StartRun ==
    /\ phase = "Idle"
    /\ phase' = "Loading"
    /\ UNCHANGED <<db, run, faqs, idx, apos, entities, analyzed, clusters, gaps,
                   recommendations, files, now, calls, raised, writes>>

\* db = next(get_db()); faqs = await self.load_faqs(db): the rows, or the
\* database raises and run_clustering re-raises
LoadFaqs ==
    /\ phase = "Loading"
    /\ \E reachable \in BOOLEAN :
          IF reachable
          THEN faqs' = db /\ phase' = "Analyzing"
          ELSE faqs' = faqs /\ phase' = "Failed"
    /\ idx' = 1
    /\ UNCHANGED <<db, run, apos, entities, analyzed, clusters, gaps,
                   recommendations, files, now, calls, raised, writes>>

\* as AnalyzeEntities, but the TypeError is not handled and ends the run
AnalyzeEntitiesUnhandled ==
    /\ phase = "Analyzing"
    /\ idx <= Len(faqs)
    /\ apos = "entities"
    /\ IF ConcatRaises(faqs[idx])
       THEN /\ raised' = raised \cup {faqs[idx].id}
            /\ phase' = "Failed"
            /\ UNCHANGED <<idx, apos, entities, calls>>
       ELSE /\ \E api \in EntityApis :
                 /\ entities' = extract_entities(api)
                 /\ calls' = Append(calls, [faq |-> faqs[idx].id, fn |-> "extract_entities",
                                            failed |-> CallFailed(api)])
            /\ apos' = "sentiment"
            /\ UNCHANGED <<idx, raised, phase>>
    /\ UNCHANGED <<db, run, faqs, analyzed, clusters, gaps, recommendations,
                   files, now, writes>>

\* analyze_faq_content, first statement of the try block: the text is built and
\* extract_entities awaited; a TypeError of the concatenation goes to the
\* handler, which returns None, and the loop goes on with the next FAQ
AnalyzeEntities ==
    /\ phase = "Analyzing"
    /\ idx <= Len(faqs)
    /\ apos = "entities"
    /\ IF ConcatRaises(faqs[idx])
       THEN /\ raised' = raised \cup {faqs[idx].id}
            /\ idx' = idx + 1
            /\ UNCHANGED <<apos, entities, calls>>
       ELSE /\ \E api \in EntityApis :
                 /\ entities' = extract_entities(api)
                 /\ calls' = Append(calls, [faq |-> faqs[idx].id, fn |-> "extract_entities",
                                            failed |-> CallFailed(api)])
            /\ apos' = "sentiment"
            /\ UNCHANGED <<idx, raised>>
    /\ UNCHANGED <<db, run, phase, faqs, analyzed, clusters, gaps, recommendations,
                   files, now, writes>>

\* as AnalyzeSentiment, but a failed call is made again
AnalyzeSentimentRetries ==
    /\ phase = "Analyzing"
    /\ idx <= Len(faqs)
    /\ apos = "sentiment"
    /\ \E api \in SentimentApis :
          /\ calls' = Append(calls, [faq |-> faqs[idx].id, fn |-> "analyze_sentiment",
                                     failed |-> CallFailed(api)])
          /\ IF CallFailed(api)
             THEN UNCHANGED <<analyzed, idx, apos>>
             ELSE /\ analyzed' = Append(analyzed,
                                        Analysis(faqs[idx], entities, analyze_sentiment(api)))
                  /\ idx' = idx + 1
                  /\ apos' = "entities"
    /\ UNCHANGED <<db, run, phase, faqs, entities, clusters, gaps, recommendations,
                   files, now, raised, writes>>

\* analyze_faq_content, the rest of the try block: analyze_sentiment awaited and
\* the dict returned; run_clustering appends it (a non-empty dict is true)
AnalyzeSentiment ==
    /\ phase = "Analyzing"
    /\ idx <= Len(faqs)
    /\ apos = "sentiment"
    /\ \E api \in SentimentApis :
          /\ analyzed' = Append(analyzed, Analysis(faqs[idx], entities, analyze_sentiment(api)))
          /\ calls' = Append(calls, [faq |-> faqs[idx].id, fn |-> "analyze_sentiment",
                                     failed |-> CallFailed(api)])
    /\ idx' = idx + 1
    /\ apos' = "entities"
    /\ UNCHANGED <<db, run, phase, faqs, entities, clusters, gaps, recommendations,
                   files, now, raised, writes>>

\* the for loop over faqs ends
EndAnalysis ==
    /\ phase = "Analyzing"
    /\ idx > Len(faqs)
    /\ phase' = "Clustering"
    /\ UNCHANGED <<db, run, faqs, idx, apos, entities, analyzed, clusters, gaps,
                   recommendations, files, now, calls, raised, writes>>

\* as CreateClusters, but the run goes on past gap detection
CreateClustersSkipsGapDetection ==
    /\ phase = "Clustering"
    /\ clusters' = create_clusters(analyzed)
    /\ phase' = "Recommending"
    /\ UNCHANGED <<db, run, faqs, idx, apos, entities, analyzed, gaps,
                   recommendations, files, now, calls, raised, writes>>

\* self.clusters = await self.create_clusters(analyzed_faqs)
CreateClusters ==
    /\ phase = "Clustering"
    /\ clusters' = create_clusters(analyzed)
    /\ phase' = "GapDetection"
    /\ UNCHANGED <<db, run, faqs, idx, apos, entities, analyzed, gaps,
                   recommendations, files, now, calls, raised, writes>>

\* self.gaps = await self.identify_gaps(self.clusters)
IdentifyGaps ==
    /\ phase = "GapDetection"
    /\ gaps' = identify_gaps(clusters)
    /\ phase' = "Recommending"
    /\ UNCHANGED <<db, run, faqs, idx, apos, entities, analyzed, clusters,
                   recommendations, files, now, calls, raised, writes>>

\* recommendations = await self.generate_recommendations(self.gaps)
GenerateRecommendations ==
    /\ phase = "Recommending"
    /\ recommendations' = generate_recommendations(gaps)
    /\ phase' = "Saving"
    /\ UNCHANGED <<db, run, faqs, idx, apos, entities, analyzed, clusters, gaps,
                   files, now, calls, raised, writes>>

\* await self.save_results(recommendations): open(output_file, "w") creates or
\* truncates the file of this second, json.dump writes the report; an OSError
\* of open leaves the directory as it was, one of the write leaves a cut file
SaveResults ==
    /\ phase = "Saving"
    /\ LET name == FileName(now) IN
       \E io \in {"ok", "open_error", "write_error"} :
          CASE io = "ok" ->
                 /\ files' = [files EXCEPT ![name] =
                                [state |-> "complete",
                                 report |-> Report(now, clusters, gaps, recommendations)]]
                 /\ writes' = [writes EXCEPT ![name] = @ + 1]
                 /\ phase' = "Done"
            [] io = "open_error" ->
                 /\ UNCHANGED <<files, writes>>
                 /\ phase' = "Failed"
            [] io = "write_error" ->
                 /\ files' = [files EXCEPT ![name] = [state |-> "partial"]]
                 /\ writes' = [writes EXCEPT ![name] = @ + 1]
                 /\ phase' = "Failed"
    /\ UNCHANGED <<db, run, faqs, idx, apos, entities, analyzed, clusters, gaps,
                   recommendations, now, calls, raised>>

\* time passes
Tick ==
    /\ now < MaxClock
    /\ now' = now + 1
    /\ UNCHANGED <<db, run, phase, faqs, idx, apos, entities, analyzed, clusters, gaps,
                   recommendations, files, calls, raised, writes>>

\* the job is started again: main() builds a new FAQClusterer in a new process
NextNight ==
    /\ phase \in {"Done", "Failed"}
    /\ run < MaxRuns
    /\ run' = run + 1
    /\ phase' = "Idle"
    /\ faqs' = <<>>
    /\ idx' = 1
    /\ apos' = "entities"
    /\ entities' = JArr(<<>>)
    /\ analyzed' = <<>>
    /\ clusters' = <<>>
    /\ gaps' = <<>>
    /\ recommendations' = <<>>
    /\ calls' = <<>>
    /\ raised' = {}
    /\ UNCHANGED <<db, files, now, writes>>

BatchCategories == {"A", "B"}
BatchPriorities == {1, 5}

InitFiles ==
    /\ files = [n \in FileNames |-> NoFile]
    /\ writes = [n \in FileNames |-> 0]
    /\ now = 0
    /\ run = 1

InitBatch ==
    /\ db \in Tables(MaxFaqs, BatchCategories, BatchPriorities)
    /\ FreshRun
    /\ InitFiles
    /\ OthersOff

RunStep ==
    \/ StartRun
    \/ LoadFaqs
    \/ AnalyzeEntities
    \/ AnalyzeSentiment
    \/ EndAnalysis
    \/ CreateClusters
    \/ IdentifyGaps
    \/ GenerateRecommendations
    \/ SaveResults

NextBatch == RunStep /\ UNCHANGED <<tts, wav, sent, conversation_history, chat, stt>>

\* one run of the job over every table of at most MaxFaqs rows
SpecBatch == InitBatch /\ [][NextBatch]_vars

InitNights ==
    /\ db \in Tables(1, {"A"}, {1})
    /\ FreshRun
    /\ InitFiles
    /\ OthersOff

NextNights ==
    (RunStep \/ Tick \/ NextNight) /\ UNCHANGED <<tts, wav, sent, conversation_history, chat, stt>>

\* MaxRuns runs of the job, one after the other, while the clock advances
SpecNights == InitNights /\ [][NextNights]_vars

(***************************************************************************)
(* create_clusters, identify_gaps and generate_recommendations on their    *)
(* own: the analyzed list is any short list, or a long block of category A *)
(* followed by a short block of category B.                                *)
(***************************************************************************)
PureItem(i, c, p) == Analysis(FaqRow(i, "q", c, p), JArr(<<>>), SentimentFallback)

ShortLists ==
    UNION {{[i \in 1..k |-> IF f[i] = <<"none", 0>> THEN NoAnalysis
                            ELSE PureItem(i, f[i][1], f[i][2])] :
               f \in [1..k -> (Categories \X Priorities) \cup {<<"none", 0>>}]} :
           k \in 0..MaxListLen}

Block(c, n1, n2, n5) == Copies(<<c, 1>>, n1) \o Copies(<<c, 2>>, n2) \o Copies(<<c, 5>>, n5)

BlockLists ==
    {LET f == Block("A", a[1], a[2], a[3]) \o Block("B", b[1], b[2], 0)
     IN  [i \in 1..Len(f) |-> PureItem(i, f[i][1], f[i][2])] :
        a \in {x \in (0..MaxCount) \X (0..MaxCount) \X (0..MaxCount) :
                  x[1] + x[2] + x[3] <= MaxCount},
        b \in {y \in (0..2) \X (0..2) : y[1] + y[2] <= 2}}

InitPure ==
    /\ db = <<>>
    /\ phase = "Clustering"
    /\ analyzed \in ShortLists \cup BlockLists
    /\ faqs = <<>>
    /\ idx = 1
    /\ apos = "entities"
    /\ entities = JArr(<<>>)
    /\ clusters = <<>>
    /\ gaps = <<>>
    /\ recommendations = <<>>
    /\ calls = <<>>
    /\ raised = {}
    /\ InitFiles
    /\ OthersOff

NextPure ==
    (CreateClusters \/ IdentifyGaps \/ GenerateRecommendations)
    /\ UNCHANGED <<tts, wav, sent, conversation_history, chat, stt>>

SpecPure == InitPure /\ [][NextPure]_vars

(***************************************************************************)
(* Properties of the clustering functions.                                 *)
(***************************************************************************)
Kept(list) == SelectSeq(list, LAMBDA a : ~IsNone(a))

OfCategory(list, c) == SelectSeq(Kept(list), LAMBDA a : a.category = c)

CategoriesOf(list) == {Kept(list)[i].category : i \in 1..Len(Kept(list))}

FirstIndex(list, c) ==
    CHOOSE i \in 1..Len(list) :
        /\ ~IsNone(list[i]) /\ list[i].category = c
        /\ \A j \in 1..(i - 1) : IsNone(list[j]) \/ list[j].category # c

Clustered == phase \in {"GapDetection", "Recommending", "Saving", "Done"}

\* C1: create_clusters returns one cluster per distinct category string, in order
\* of first occurrence; a cluster's faqs are the input FAQs of its category, in
\* input order, count is their number and avg_priority their arithmetic mean;
\* [A:1, A:1, B:5] gives A (count 2, avg 1.0), then B (count 1, avg 5.0)
ClustersGroupByCategory ==
    Clustered =>
        /\ {clusters[i].name : i \in 1..Len(clusters)} = CategoriesOf(analyzed)
        /\ Len(clusters) = Cardinality(CategoriesOf(analyzed))
        /\ \A i, j \in 1..Len(clusters) :
              i < j => FirstIndex(analyzed, clusters[i].name) < FirstIndex(analyzed, clusters[j].name)
        /\ \A i \in 1..Len(clusters) :
              LET c == clusters[i]
                  members == OfCategory(analyzed, c.name)
              IN  /\ c.faqs = members
                  /\ c.count = Len(members)
                  /\ c.count >= 1
                  /\ c.avg_priority.den > 0
                  /\ c.avg_priority.num * Len(members)
                        = c.avg_priority.den * SumOf(PrioritiesOf(members))
        /\ ( /\ Len(analyzed) = 3
             /\ \A i \in 1..3 : ~IsNone(analyzed[i])
             /\ <<analyzed[1].category, analyzed[2].category, analyzed[3].category>> = <<"A", "A", "B">>
             /\ <<analyzed[1].priority, analyzed[2].priority, analyzed[3].priority>> = <<1, 1, 5>> )
           => /\ Len(clusters) = 2
              /\ clusters[1].name = "A" /\ clusters[1].count = 2
              /\ clusters[1].avg_priority.num = 1 * clusters[1].avg_priority.den
              /\ clusters[2].name = "B" /\ clusters[2].count = 1
              /\ clusters[2].avg_priority.num = 5 * clusters[2].avg_priority.den

\* a list of an "a", a skipped None and an "A" has been clustered into two
\* clusters, "a" first
ClustersGroupByCategoryWitness ==
    /\ phase = "GapDetection"
    /\ Len(analyzed) = 3
    /\ Len(clusters) = 2
    /\ IsNone(analyzed[2])
    /\ clusters[1].name = "a"
    /\ clusters[2].name = "A"
    /\ clusters[1].avg_priority = Frac(2, 1)

GapsOf(c, type) ==
    {k \in 1..Len(gaps) : gaps[k].category = c.name /\ gaps[k].type = type}

AllGapsOf(c) == {k \in 1..Len(gaps) : gaps[k].category = c.name}

\* C2: a cluster gets a low_coverage gap iff count < 3 and a low_priority gap iff
\* avg_priority < 2 and count > 5, each at most once: count 6 with average 1.5
\* gives exactly one gap, low_priority; count 2 with average 1.0 exactly one,
\* low_coverage; count 3, 4 or 5 none
GapRulesAreStrict ==
    phase \in {"Recommending", "Saving", "Done"} =>
        \A i \in 1..Len(clusters) :
            LET c == clusters[i]
                below2 == c.avg_priority.num < 2 * c.avg_priority.den
            IN  /\ Cardinality(GapsOf(c, "low_coverage")) = (IF c.count < 3 THEN 1 ELSE 0)
                /\ Cardinality(GapsOf(c, "low_priority"))
                      = (IF below2 /\ c.count > 5 THEN 1 ELSE 0)
                /\ \A k \in AllGapsOf(c) : gaps[k].type \in {"low_coverage", "low_priority"}
                /\ (c.count = 6 /\ 2 * c.avg_priority.num = 3 * c.avg_priority.den)
                      => \E k \in 1..Len(gaps) :
                            AllGapsOf(c) = {k} /\ gaps[k].type = "low_priority"
                /\ (c.count = 2 /\ c.avg_priority.num = c.avg_priority.den)
                      => \E k \in 1..Len(gaps) :
                            AllGapsOf(c) = {k} /\ gaps[k].type = "low_coverage"
                /\ c.count \in {3, 4, 5} => AllGapsOf(c) = {}

\* gaps were computed for a cluster of six FAQs of average priority 1.5, followed
\* by a cluster of two FAQs of priority 1
GapRulesAreStrictWitness ==
    /\ phase = "Recommending"
    /\ Len(clusters) = 2
    /\ clusters[1].count = 6
    /\ 2 * clusters[1].avg_priority.num = 3 * clusters[1].avg_priority.den
    /\ clusters[2].count = 2
    /\ clusters[2].avg_priority.num = clusters[2].avg_priority.den
    /\ Len(gaps) = 2

(***************************************************************************)
(* Properties of a run of the job.                                         *)
(***************************************************************************)
IdsOf(list) == {list[i].id : i \in 1..Len(list)}

ClusteredIds == UNION {IdsOf(clusters[i].faqs) : i \in 1..Len(clusters)}

CompleteFiles == {n \in FileNames : files[n].state = "complete"}

\* C3: a FAQ whose analysis raised is in no cluster and is not counted in
\* summary.total_faqs; the FAQs after it are still analyzed; the exception does
\* not end the run, which goes on to write its report
AnalysisErrorDropsOnlyThatFaq ==
    /\ raised \cap IdsOf(analyzed) = {}
    /\ raised \cap ClusteredIds = {}
    /\ raised # {} /\ phase # "Analyzing" => idx > Len(faqs)
    /\ phase \in {"Analyzing", "Clustering", "GapDetection", "Recommending", "Saving", "Done"}
          => \A i \in 1..Len(faqs) :
                i < idx => faqs[i].id \in raised \cup IdsOf(analyzed)
    /\ \A n \in CompleteFiles :
          /\ files[n].report.summary.total_faqs <= Len(faqs) - Cardinality(raised)
          /\ \A i \in 1..Len(files[n].report.clusters) :
                raised \cap IdsOf(files[n].report.clusters[i].faqs) = {}

\* the analysis of the first of three FAQs raised, the other two were analyzed
\* and the report of the run counts two FAQs
AnalysisErrorDropsOnlyThatFaqWitness ==
    /\ phase = "Done"
    /\ Len(faqs) = 3
    /\ raised = {1}
    /\ IdsOf(analyzed) = {2, 3}
    /\ \E n \in CompleteFiles : files[n].report.summary.total_faqs = 2

\* C4: no FAQ whose entity-extraction or sentiment call failed is in a cluster
FailedCallDiscardsFaq ==
    \A k \in 1..Len(calls) : calls[k].failed => calls[k].faq \notin ClusteredIds

\* C5: in every report written, summary.total_faqs is the sum of the clusters'
\* counts, which is the number of FAQs kept by the analysis and at most the
\* number loaded; total_clusters and total_gaps are the lengths of the lists
ReportSummaryCounts ==
    \A n \in CompleteFiles :
        LET r == files[n].report IN
        /\ r.summary.total_faqs
              = Cardinality({<<i, j>> \in (1..Len(r.clusters)) \X (1..MaxFaqs + 1) :
                                j <= r.clusters[i].count})
        /\ r.summary.total_faqs = Len(analyzed)
        /\ r.summary.total_faqs <= Len(faqs)
        /\ r.summary.total_clusters = Len(r.clusters)
        /\ r.summary.total_clusters = Cardinality(CategoriesOf(analyzed))
        /\ r.summary.total_gaps = Len(r.gaps)
        /\ r.clusters = clusters /\ r.gaps = gaps

\* a report of three FAQs kept of three loaded, in two clusters with two gaps
ReportSummaryCountsWitness ==
    \E n \in CompleteFiles :
        /\ Len(faqs) = 3
        /\ files[n].report.summary = [total_faqs |-> 3, total_clusters |-> 2, total_gaps |-> 2]

\* C6: a report file, once written, is not written again by a later run
ReportWrittenOnce ==
    \A n \in FileNames : writes[n] <= 1

(***************************************************************************)
(* text_to_speech (services/tts.py).  A speed is a Python float: a number  *)
(* of hundredths, or NaN, which compares false with everything.            *)
(***************************************************************************)
Num(v) == [nan |-> FALSE, v |-> v]
NaN == [nan |-> TRUE, v |-> 0]

FloatLess(a, b) == ~a.nan /\ ~b.nan /\ a.v < b.v

MinSpeed == 25
MaxSpeed == 400
DefaultSpeed == 100

valid_voices == {"alloy", "echo", "fable", "onyx", "nova", "shimmer"}

\* if voice not in valid_voices: voice = "alloy"
EffectiveVoice(voice) == IF voice \notin valid_voices THEN "alloy" ELSE voice

\* if speed < 0.25 or speed > 4.0: speed = 1.0
EffectiveSpeed(speed) ==
    IF FloatLess(speed, Num(MinSpeed)) \/ FloatLess(Num(MaxSpeed), speed)
    THEN Num(DefaultSpeed)
    ELSE speed

RequestedVoices == valid_voices \cup {"Alloy", "", "robot"}
RequestedSpeeds == {Num(v) : v \in {-100, 0, 24, 25, 26, 100, 399, 400, 401, 1000}} \cup {NaN}

\* text_to_speech: the synthesis API is called with the effective voice and
\* speed; its audio is returned, or b"" when the call raises
TextToSpeech ==
    /\ tts.pc = "request"
    /\ \E audio \in {"audio", "raise"} :
          tts' = [pc |-> "returned", voice |-> tts.voice, speed |-> tts.speed,
                  api_voice |-> EffectiveVoice(tts.voice),
                  api_speed |-> EffectiveSpeed(tts.speed),
                  result |-> IF audio = "audio" THEN "mp3 bytes" ELSE ""]
    /\ UNCHANGED <<batchVars, stt, wav, sent, conversation_history, chat>>

BatchOff ==
    /\ db = <<>>
    /\ FreshRun
    /\ InitFiles

InitTts ==
    /\ tts \in {[pc |-> "request", voice |-> v, speed |-> s] :
                   v \in RequestedVoices, s \in RequestedSpeeds}
    /\ BatchOff
    /\ stt = Off
    /\ wav = Off /\ sent = Off /\ conversation_history = <<>> /\ chat = Off

SpecTts == InitTts /\ [][TextToSpeech]_vars

\* C7: the synthesis API gets the requested voice if it is one of the six valid
\* voices and alloy otherwise, and the requested speed if 0.25 <= speed <= 4.0
\* and 1.0 otherwise, each independently of the other, and nothing is raised
TtsSubstitutesDefaults ==
    tts.pc = "returned" =>
        /\ tts.api_voice = (IF tts.voice \in {"alloy", "echo", "fable", "onyx", "nova", "shimmer"}
                            THEN tts.voice ELSE "alloy")
        /\ tts.api_speed = (IF ~tts.speed.nan /\ 25 <= tts.speed.v /\ tts.speed.v <= 400
                            THEN tts.speed ELSE Num(100))

(***************************************************************************)
(* validate_audio_format (services/whisper.py).  A buffer is its length    *)
(* and its first bytes (at most HeadLen of them).                          *)
(***************************************************************************)
HeadLen == 4

WhisperLimit == 25 * 1024 * 1024

audio_headers ==
    {<<82, 73, 70, 70>>,     \* RIFF
     <<73, 68, 51>>,         \* ID3
     <<255, 251>>,           \* FF FB
     <<79, 103, 103, 83>>,   \* OggS
     <<102, 76, 97, 67>>}    \* fLaC

StartsWith(data, header) ==
    /\ Len(header) <= Len(data.head)
    /\ SubSeq(data.head, 1, Len(header)) = header

ValidateRequiresHeader(data) ==
    IF data.len = 0 THEN FALSE
    ELSE IF data.len > WhisperLimit THEN FALSE
    ELSE \E header \in audio_headers : StartsWith(data, header)

validate_audio_format(data) ==
    IF data.len = 0 THEN FALSE
    ELSE IF data.len > WhisperLimit THEN FALSE
    ELSE IF \E header \in audio_headers : StartsWith(data, header) THEN TRUE
    ELSE TRUE

Heads ==
    {SubSeq(h \o Copies(0, HeadLen), 1, k) :
        h \in audio_headers \cup {<<>>, <<82, 73, 70, 71>>, <<1, 2, 3, 4>>}, k \in 0..HeadLen}

BufferLengths == (0..(HeadLen + 2)) \cup {WhisperLimit - 1, WhisperLimit, WhisperLimit + 1}

Buffers ==
    {[head |-> h, len |-> n] : h \in Heads, n \in BufferLengths} \cap
    {b \in [head : Heads, len : BufferLengths] :
        Len(b.head) = (IF b.len < HeadLen THEN b.len ELSE HeadLen)}

ValidateAudio ==
    /\ wav.pc = "input"
    /\ wav' = [pc |-> "returned", data |-> wav.data, result |-> validate_audio_format(wav.data)]
    /\ UNCHANGED <<batchVars, stt, tts, sent, conversation_history, chat>>

InitWav ==
    /\ wav \in {[pc |-> "input", data |-> b] : b \in Buffers}
    /\ BatchOff
    /\ stt = Off
    /\ tts = Off /\ sent = Off /\ conversation_history = <<>> /\ chat = Off

SpecWav == InitWav /\ [][ValidateAudio]_vars

\* C8: validate_audio_format is false for an empty buffer and for one longer
\* than 25*1024*1024 bytes and true for every other buffer, with or without a
\* recognized header
AudioValidIffLengthInRange ==
    wav.pc = "returned" =>
        wav.result = (wav.data.len # 0 /\ wav.data.len <= 26214400)

\* a buffer of exactly the limit with no recognized header was accepted
AudioValidIffLengthInRangeWitness ==
    /\ wav.pc = "returned"
    /\ wav.data.len = 26214400
    /\ wav.data.head = <<1, 2, 3, 4>>
    /\ wav.result = TRUE

(***************************************************************************)
(* analyze_sentiment (services/openai.py) on its own, over what the        *)
(* completion API may answer.                                              *)
(***************************************************************************)
SentimentLabels == {"'positive'", "'negative'", "'neutral'", "'mixed'"}

SentimentTexts ==
    {SentimentJson(l, c) : l \in SentimentLabels \cup {"0.5"}, c \in NumberTokens \cup {"'neutral'"}}
    \cup {<<"[", "]">>, <<"{", "}">>, <<"0.9">>, <<"'positive'">>, <<>>,
          <<"{", "'sentiment'", ":", "'positive'", "}">>,
          <<"{", "'confidence'", ":", "0.9", "}">>,
          <<"Sentiment", ":", "'positive'">>,
          <<"{", "'sentiment'", ":", "'positive'", ",", "}">>}

AllSentimentApis == {ApiRaise, ApiNoChoice} \cup {ApiReply(t) : t \in SentimentTexts}

AnalyzeSentimentCall ==
    /\ sent.pc = "call"
    /\ sent' = [pc |-> "returned", text |-> sent.text, api |-> sent.api,
                result |-> analyze_sentiment(sent.api)]
    /\ UNCHANGED <<batchVars, stt, tts, wav, conversation_history, chat>>

InitSent ==
    /\ sent \in {[pc |-> "call", text |-> t, api |-> a] :
                    t \in {"I feel fine", "I am sad", ""}, a \in AllSentimentApis}
    /\ BatchOff
    /\ stt = Off
    /\ tts = Off /\ wav = Off /\ conversation_history = <<>> /\ chat = Off

SpecSent == InitSent /\ [][AnalyzeSentimentCall]_vars

WellFormedSentiment(r) ==
    /\ r.t = "object"
    /\ {"sentiment", "confidence"} \subseteq r.keys
    /\ r.get["sentiment"].t = "str"
    /\ r.get["sentiment"].s \in {"positive", "negative", "neutral"}
    /\ r.get["confidence"].t = "num"
    /\ r.get["confidence"].n >= 0
    /\ r.get["confidence"].n <= 100

\* C10: analyze_sentiment returns, whatever the model answers, a record whose
\* sentiment is positive, negative or neutral and whose confidence is in [0,1];
\* when the call or the parsing fails it is neutral, 0.5 with an error field
SentimentAlwaysWellFormed ==
    sent.pc = "returned" =>
        /\ WellFormedSentiment(sent.result)
        /\ CallFailed(sent.api) =>
              /\ sent.result.keys = {"sentiment", "confidence", "error"}
              /\ sent.result.get["sentiment"] = JStr("neutral")
              /\ sent.result.get["confidence"] = JNum(50)

(***************************************************************************)
(* ElderTechAssistant.get_response (services/openai.py) on the one global  *)
(* assistant, called by concurrent requests; a call suspends only at the   *)
(* await of the completion API.                                            *)
(***************************************************************************)
Callers == {"A", "B"}
UserMessages == {"hello", "help"}
Replies == {"hi", "sure"}
NoContext == "None"
UserContexts == {NoContext, "{age: 80}", "{obj: <object>}"}

HistoryWindow == 10

system_prompt == [role |-> "system", content |-> "You are ElderTech"]

\* json.dumps(user_context) raises TypeError for a value that is no JSON
JsonDumpsRaises(ctx) == ctx = "{obj: <object>}"

LastMessagesUntrimmed(history) == history

\* self.conversation_history[-10:]
LastMessages(history) ==
    IF Len(history) <= HistoryWindow THEN history
    ELSE SubSeq(history, Len(history) - HistoryWindow + 1, Len(history))

\* as Prompt, but without the stored history
PromptWithoutHistory(history, user_message, ctx) ==
    <<system_prompt>>
    \o (IF ctx # NoContext
        THEN <<[role |-> "system", content |-> <<"User context: ", ctx>>]>>
        ELSE <<>>)
    \o <<[role |-> "user", content |-> user_message]>>

\* the messages list of get_response
Prompt(history, user_message, ctx) ==
    <<system_prompt>> \o LastMessages(history)
    \o (IF ctx # NoContext
        THEN <<[role |-> "system", content |-> <<"User context: ", ctx>>]>>
        ELSE <<>>)
    \o <<[role |-> "user", content |-> user_message]>>

Apology(e) == [ok |-> FALSE, text |-> <<"I apologize", e>>]

\* history: the number of get_response calls made so far
RECURSIVE CallsMade(_)
CallsMade(cs) ==
    IF cs = {} THEN 0
    ELSE LET c == CHOOSE x \in cs : TRUE IN chat[c].n + CallsMade(cs \ {c})

\* as GetResponseStart, but the user message is stored before the await
GetResponseStartStoresUser(c) ==
    /\ chat[c].pc \in {"idle", "returned"}
    /\ CallsMade(Callers) < MaxCalls
    /\ \E m \in UserMessages, ctx \in UserContexts :
          /\ chat' = [chat EXCEPT ![c] =
                        IF JsonDumpsRaises(ctx)
                        THEN [pc |-> "returned", n |-> @.n + 1, message |-> m,
                              messages |-> <<>>, result |-> Apology("TypeError")]
                        ELSE [pc |-> "awaiting", n |-> @.n + 1, message |-> m,
                              messages |-> Prompt(conversation_history, m, ctx),
                              result |-> Apology("")]]
          /\ conversation_history' =
                Append(conversation_history, [role |-> "user", content |-> m])
    /\ UNCHANGED <<batchVars, stt, tts, wav, sent>>

\* get_response up to the await: the prompt is built and the completion API
\* called; a TypeError of json.dumps is caught and the apology returned
GetResponseStart(c) ==
    /\ chat[c].pc \in {"idle", "returned"}
    /\ CallsMade(Callers) < MaxCalls
    /\ \E m \in UserMessages, ctx \in UserContexts :
          chat' = [chat EXCEPT ![c] =
                     IF JsonDumpsRaises(ctx)
                     THEN [pc |-> "returned", n |-> @.n + 1, message |-> m,
                           messages |-> <<>>, result |-> Apology("TypeError")]
                     ELSE [pc |-> "awaiting", n |-> @.n + 1, message |-> m,
                           messages |-> Prompt(conversation_history, m, ctx),
                           result |-> Apology("")]]
    /\ UNCHANGED <<batchVars, stt, tts, wav, sent, conversation_history>>

GetResponseCompleteStoresUserFirst(c) ==
    /\ chat[c].pc = "awaiting"
    /\ \E api \in {ApiRaise, ApiNoChoice} \cup {ApiReply(r) : r \in Replies} :
          IF api.kind = "reply"
          THEN /\ conversation_history' =
                     conversation_history \o
                        <<[role |-> "user", content |-> chat[c].message],
                          [role |-> "assistant", content |-> api.content]>>
               /\ chat' = [chat EXCEPT ![c].pc = "returned",
                                       ![c].result = [ok |-> TRUE, text |-> api.content]]
          ELSE /\ conversation_history' =
                     Append(conversation_history, [role |-> "user", content |-> chat[c].message])
               /\ chat' = [chat EXCEPT ![c].pc = "returned",
                                       ![c].result = Apology(api.kind)]
    /\ UNCHANGED <<batchVars, stt, tts, wav, sent>>

\* get_response after the await: the reply's first choice is appended to the
\* history after the user message and returned; if the call raised or the
\* response has no choice, the apology is returned
GetResponseComplete(c) ==
    /\ chat[c].pc = "awaiting"
    /\ \E api \in {ApiRaise, ApiNoChoice} \cup {ApiReply(r) : r \in Replies} :
          IF api.kind = "reply"
          THEN /\ conversation_history' =
                     conversation_history \o
                        <<[role |-> "user", content |-> chat[c].message],
                          [role |-> "assistant", content |-> api.content]>>
               /\ chat' = [chat EXCEPT ![c].pc = "returned",
                                       ![c].result = [ok |-> TRUE, text |-> api.content]]
          ELSE /\ UNCHANGED conversation_history
               /\ chat' = [chat EXCEPT ![c].pc = "returned",
                                       ![c].result = Apology(api.kind)]
    /\ UNCHANGED <<batchVars, stt, tts, wav, sent>>

InitChat ==
    /\ conversation_history = <<>>
    /\ chat = [c \in Callers |-> [pc |-> "idle", n |-> 0, message |-> "", messages |-> <<>>,
                                  result |-> Apology("")]]
    /\ BatchOff
    /\ stt = Off
    /\ tts = Off /\ wav = Off /\ sent = Off

NextChat == \E c \in Callers : GetResponseStart(c) \/ GetResponseComplete(c)

SpecChat == InitChat /\ [][NextChat]_vars

\* C9: a call of get_response whose completion call or result parsing fails
\* returns the apology text, raises nothing and leaves conversation_history as
\* it was: the failed user message is not stored
ChatFailsSoft ==
    [][\A c \in Callers :
          (chat[c].pc # "returned" /\ chat'[c].pc = "returned" /\ ~chat'[c].result.ok)
             => /\ conversation_history' = conversation_history
                /\ chat'[c].result.text[1] = "I apologize"]_vars

\* a call has failed after the await while the history held an earlier exchange
ChatFailsSoftWitness ==
    /\ Len(conversation_history) = 2
    /\ conversation_history[1].content = "hello"
    /\ chat["A"].pc = "returned" /\ chat["A"].result = Apology("raise")
    /\ chat["A"].message = "help"
    /\ chat["B"].pc = "returned" /\ chat["B"].result.ok

(***************************************************************************)
(* routers/whisper.py: POST /api/whisper/speech-to-text.  A content type   *)
(* is the sequence of its tokens, so that startswith('audio/') is a test   *)
(* on a prefix; an upload sent without a content type has None.            *)
(***************************************************************************)
ContentType(toks) == [none |-> FALSE, toks |-> toks]

NoContentType == [none |-> TRUE, toks |-> <<>>]

ContentTypes ==
    {ContentType(<<"audio", "/", "wav">>), ContentType(<<"audio", "/", "mpeg">>),
     ContentType(<<"audio", "/", "ogg">>), ContentType(<<"audio", "/">>),
     ContentType(<<"text", "/", "plain">>), ContentType(<<"video", "/", "mp4">>),
     ContentType(<<"audio">>), NoContentType}

Uploads == {<<>>, <<82, 73, 70, 70>>, <<255, 251>>, <<79, 103, 103, 83>>}

\* the HTTPException raised by a handler, as the response it becomes
HTTPException(status_code, detail) ==
    [status_code |-> status_code, detail |-> detail]

\* the handler's except clause: whatever exception e left the try block
ErrorProcessingAudio(e) == HTTPException(500, <<"Error processing audio: ", e>>)

\* str.startswith
HasPrefix(toks, prefix) ==
    /\ Len(prefix) <= Len(toks)
    /\ SubSeq(toks, 1, Len(prefix)) = prefix

\* the outcome of the content type test, None when the upload passes it
NoException == [status_code |-> 0, detail |-> <<>>]

ContentTypeCheck(t) ==
    IF t.none THEN ErrorProcessingAudio("AttributeError")
    ELSE IF ~HasPrefix(t.toks, <<"audio", "/">>)
         THEN ErrorProcessingAudio("400: File must be an audio file")
         ELSE NoException

\* services/whisper.py speech_to_text, by the outcome of the Whisper call:
\* the transcript, or "" after an exception it has caught
Transcripts == {"hello", "call my daughter"}

WhisperOutcomes == Transcripts \cup {"raise"}

speech_to_text(outcome) == IF outcome = "raise" THEN "" ELSE outcome

Respond(e) ==
    stt' = [stt EXCEPT !.pc = "responded", !.status_code = e.status_code,
                       !.detail = e.detail]

\* lines 27-33: the content type test inside the try block
ValidateUpload ==
    /\ stt.pc = "received"
    /\ LET e == ContentTypeCheck(stt.content_type)
       IN  IF e # NoException THEN Respond(e)
           ELSE stt' = [stt EXCEPT !.pc = "reading"]
    /\ UNCHANGED <<batchVars, tts, wav, sent, conversation_history, chat>>

\* line 36: await audio_file.read()
ReadUpload ==
    /\ stt.pc = "reading"
    /\ \E ok \in BOOLEAN :
          IF ok THEN stt' = [stt EXCEPT !.pc = "transcribing", !.audio_content = stt.upload]
          ELSE Respond(ErrorProcessingAudio("OSError"))
    /\ UNCHANGED <<batchVars, tts, wav, sent, conversation_history, chat>>

\* lines 39-45: await speech_to_text(audio_content) and the 200 response
Transcribe ==
    /\ stt.pc = "transcribing"
    /\ \E outcome \in WhisperOutcomes :
          stt' = [stt EXCEPT !.pc = "responded", !.status_code = 200,
                             !.transcriptions = stt.transcriptions + 1,
                             !.text = speech_to_text(outcome)]
    /\ UNCHANGED <<batchVars, tts, wav, sent, conversation_history, chat>>

InitStt ==
    /\ \E t \in ContentTypes, u \in Uploads :
          stt = [pc |-> "received", content_type |-> t, upload |-> u,
                 audio_content |-> <<>>, transcriptions |-> 0, status_code |-> 0,
                 detail |-> <<>>, text |-> ""]
    /\ BatchOff
    /\ tts = Off /\ wav = Off /\ sent = Off
    /\ conversation_history = <<>>
    /\ chat = Off

NextStt == ValidateUpload \/ ReadUpload \/ Transcribe

SpecStt == InitStt /\ [][NextStt]_vars

IsAudioType(t) == Len(t.toks) >= 2 /\ t.toks[1] = "audio" /\ t.toks[2] = "/"

\* C11: an upload whose content type is not audio/* is answered with status
\* 400, and speech_to_text is not called for it
NonAudioUploadGets400 ==
    (stt.pc = "responded" /\ ~stt.content_type.none /\ ~IsAudioType(stt.content_type))
       => (stt.status_code = 400 /\ stt.transcriptions = 0)

\* C12: a run of run_clustering that ends in Failed has raised to its caller
\* and has left no report file behind, neither a complete nor a partial one
FailedRunLeavesNoReport ==
    phase = "Failed" => \A n \in FileNames : files[n] = NoFile

(***************************************************************************)
(* run_clustering with the faults of its environment.  Every statement of  *)
(* lines 129-165 can raise for a reason outside the data (print on a       *)
(* closed stdout, MemoryError); inside the try block the except clause of  *)
(* lines 167-169 prints and re-raises, and the print of line 129 raises    *)
(* straight to the caller.                                                 *)
(***************************************************************************)
PhaseOrder ==
    <<"Idle", "Loading", "Analyzing", "Clustering", "GapDetection", "Recommending",
      "Saving", "Done">>

NonTerminalPhases == {PhaseOrder[i] : i \in 1..(Len(PhaseOrder) - 1)}

Fault ==
    /\ phase \in NonTerminalPhases
    /\ phase' = "Failed"
    /\ UNCHANGED <<db, run, faqs, idx, apos, entities, analyzed, clusters, gaps,
                   recommendations, files, now, calls, raised, writes>>

InitFaulty ==
    /\ db \in Tables(MaxFaqs, {"A"}, {1})
    /\ FreshRun
    /\ InitFiles
    /\ OthersOff

NextFaulty ==
    (RunStep \/ Fault) /\ UNCHANGED <<tts, wav, sent, conversation_history, chat, stt>>

SpecFaulty == InitFaulty /\ [][NextFaulty]_vars

PhaseIndex(p) == CHOOSE i \in 1..Len(PhaseOrder) : PhaseOrder[i] = p

\* every loaded FAQ has been through analyze_faq_content
AllAnalyzed ==
    /\ idx > Len(faqs)
    /\ IdsOf(faqs) = IdsOf(analyzed) \cup raised

\* C13: the phase only moves to the next one of Idle, Loading, Analyzing,
\* Clustering, GapDetection, Recommending, Saving, Done, or to Failed; a step to
\* Failed is possible in every phase but Done, and no step leaves Failed; the
\* report is written at most once, by a step that leaves Saving when every
\* loaded FAQ has been analyzed and clusters, gaps and recommendations are
\* the ones computed from them
PhasesInOrder ==
    /\ [][phase' # phase =>
            /\ phase \in NonTerminalPhases
            /\ \/ phase' = "Failed"
               \/ /\ phase' \in NonTerminalPhases \cup {"Done"}
                  /\ PhaseIndex(phase') = PhaseIndex(phase) + 1]_vars
    /\ [](phase \in NonTerminalPhases => ENABLED (NextFaulty /\ phase' = "Failed"))
    /\ [](SumOf([i \in 1..Cardinality(FileNames) |-> writes[i - 1]]) <= 1)
    /\ [][files' # files =>
            /\ phase = "Saving"
            /\ AllAnalyzed
            /\ clusters = create_clusters(analyzed)
            /\ gaps = identify_gaps(clusters)
            /\ recommendations = generate_recommendations(gaps)]_vars

\* a run over three FAQs, one of them dropped by its analysis, has written its
\* report and is Done
PhasesInOrderWitness ==
    /\ phase = "Done"
    /\ Len(faqs) = MaxFaqs
    /\ Cardinality(raised) = 1
    /\ CompleteFiles # {}

\* C14 as stated: when a list is about to be clustered, it may be one in which
\* some cluster gets both a low_coverage and a low_priority gap from
\* identify_gaps
ClusterMayTriggerBothGapTypes ==
    phase = "Clustering" =>
    \E l \in BlockLists :
        LET cs == create_clusters(l)
            gs == identify_gaps(cs)
        IN  \E i \in 1..Len(cs) : \E j, k \in 1..Len(gs) :
               /\ gs[j].category = cs[i].name /\ gs[j].type = "low_coverage"
               /\ gs[k].category = cs[i].name /\ gs[k].type = "low_priority"

\* C14 (amended): the two rules are evaluated each on its own, one pass per
\* rule, and a cluster triggers no gap or exactly one gap, never both types:
\* count < 3 and count > 5 exclude each other
GapTypesExcludeEachOther ==
    phase \in {"Recommending", "Saving", "Done"} =>
        /\ gaps = CoveragePass(clusters) \o PriorityPass(clusters)
        /\ \A i \in 1..Len(clusters) :
              /\ Cardinality(AllGapsOf(clusters[i])) <= 1
              /\ GapsOf(clusters[i], "low_coverage") = {}
                    \/ GapsOf(clusters[i], "low_priority") = {}

\* gaps were computed for a cluster that triggers none and a cluster that
\* triggers exactly one, a low_coverage gap
GapTypesExcludeEachOtherWitness ==
    /\ phase = "Recommending"
    /\ \E i \in 1..Len(clusters) : AllGapsOf(clusters[i]) = {}
    /\ \E i \in 1..Len(clusters) :
          Cardinality(AllGapsOf(clusters[i])) = 1 /\ GapsOf(clusters[i], "low_coverage") # {}

\* C15: the gateway calls of a run are made one FAQ at a time, in load order
\* and without retry: a FAQ's extract_entities call comes after every call of
\* the FAQs before it and right after the analyze_sentiment call that ended the
\* previous analyzed FAQ; its analyze_sentiment call follows its extract_entities
\* call at once; no FAQ has two calls of one function; a FAQ whose analysis
\* raised has no analyze_sentiment call
GatewayCallsSequential ==
    \A k \in 1..Len(calls) :
        /\ \A j \in 1..(k - 1) :
              \/ calls[j].faq < calls[k].faq
              \/ calls[j].faq = calls[k].faq /\ calls[j].fn # calls[k].fn
        /\ calls[k].fn = "extract_entities" /\ k > 1
              => calls[k - 1].fn = "analyze_sentiment"
        /\ calls[k].fn = "analyze_sentiment"
              => /\ k > 1
                 /\ calls[k - 1].fn = "extract_entities"
                 /\ calls[k - 1].faq = calls[k].faq
                 /\ calls[k].faq \notin raised
        /\ \E i \in 1..Len(faqs) : faqs[i].id = calls[k].faq /\ i <= idx

\* three FAQs were loaded, the analysis of the second raised, and the first and
\* the third had their two calls each, a failed one among them
GatewayCallsSequentialWitness ==
    /\ phase = "Clustering"
    /\ Len(faqs) = 3
    /\ raised = {2}
    /\ Len(calls) = 4
    /\ calls[1].faq = 1 /\ calls[3].faq = 3
    /\ calls[2].failed

(***************************************************************************)
(* The assistant after earlier successful calls: the module-level          *)
(* assistant lives as long as the server process and reset_conversation    *)
(* has no caller, so every exchange answered so far is still stored.       *)
(***************************************************************************)
MaxEarlier == 6

Earlier ==
    <<<<"m1", "r1">>, <<"m2", "r2">>, <<"m3", "r3">>, <<"m4", "r4">>, <<"m5", "r5">>,
      <<"m6", "r6">>, <<"m7", "r7">>, <<"m8", "r8">>>>

RECURSIVE PastHistory(_)
PastHistory(k) ==
    IF k = 0 THEN <<>>
    ELSE PastHistory(k - 1) \o <<[role |-> "user", content |-> Earlier[k][1]],
                                 [role |-> "assistant", content |-> Earlier[k][2]]>>

InitChatLong ==
    /\ \E k \in {MaxEarlier - 2, MaxEarlier} : conversation_history = PastHistory(k)
    /\ chat = [c \in Callers |-> [pc |-> "idle", n |-> 0, message |-> "", messages |-> <<>>,
                                  result |-> Apology("")]]
    /\ BatchOff
    /\ stt = Off
    /\ tts = Off /\ wav = Off /\ sent = Off

SpecChatLong == InitChatLong /\ [][NextChat]_vars

\* C16: the prompt of a call is the system prompt, then the last 10 stored
\* history entries (all of them if there are fewer) in stored order, then at
\* most one user-context system message, then the user message; the stored
\* history is never cut: a successful call appends two entries to it and no
\* step removes or changes an entry
PromptIsWindowOfHistory ==
    /\ [][\A c \in Callers :
            (chat[c].pc # "awaiting" /\ chat'[c].pc = "awaiting") =>
               LET h == conversation_history
                   w == IF Len(h) < HistoryWindow THEN Len(h) ELSE HistoryWindow
                   p == chat'[c].messages
               IN  /\ p[1] = system_prompt
                   /\ Len(p) \in {w + 2, w + 3}
                   /\ \A j \in 1..w : p[1 + j] = h[Len(h) - w + j]
                   /\ Len(p) = w + 3
                         => p[w + 2].role = "system" /\ p[w + 2].content[1] = "User context: "
                   /\ p[Len(p)].role = "user" /\ p[Len(p)].content = chat'[c].message]_vars
    /\ [][IF \E c \in Callers :
                chat[c].pc = "awaiting" /\ chat'[c].pc = "returned" /\ chat'[c].result.ok
          THEN /\ Len(conversation_history') = Len(conversation_history) + 2
               /\ SubSeq(conversation_history', 1, Len(conversation_history))
                     = conversation_history
          ELSE conversation_history' = conversation_history]_vars

\* with 14 entries stored, a call with a user context has built a prompt of 13
\* messages that starts, after the system prompt, at the fifth stored entry
PromptIsWindowOfHistoryWitness ==
    /\ Len(conversation_history) = 14
    /\ chat["A"].pc = "awaiting"
    /\ Len(chat["A"].messages) = 13
    /\ chat["A"].messages[2] = conversation_history[5]
    /\ chat["A"].messages[12].role = "system"

\* C17: there is one history for all callers: when a caller's last call was
\* answered successfully and its exchange is within the last 10 stored entries,
\* the prompt built next for another caller holds that caller's message
\* followed by its reply
HistorySharedAcrossCallers ==
    [][\A a, b \in Callers :
          (/\ a # b
           /\ chat[a].pc = "returned" /\ chat[a].result.ok
           /\ Len(conversation_history) <= HistoryWindow
           /\ chat[b].pc # "awaiting" /\ chat'[b].pc = "awaiting")
          => \E j \in 1..(Len(chat'[b].messages) - 1) :
                /\ chat'[b].messages[j].role = "user"
                /\ chat'[b].messages[j].content = chat[a].message
                /\ chat'[b].messages[j + 1].role = "assistant"
                /\ chat'[b].messages[j + 1].content = chat[a].result.text]_vars

\* caller A said "hello" and was answered "hi"; the prompt of caller B's call
\* "help" holds both
HistorySharedAcrossCallersWitness ==
    /\ chat["A"].pc = "returned" /\ chat["A"].result.ok
    /\ chat["A"].message = "hello" /\ chat["A"].result.text = "hi"
    /\ chat["B"].pc = "awaiting" /\ chat["B"].n = 1 /\ chat["B"].message = "help"
    /\ Len(chat["B"].messages) = 4
    /\ chat["B"].messages[2].content = "hello"
    /\ chat["B"].messages[3].content = "hi"

\* C18: generate_recommendations returns one recommendation per gap, in the
\* order of the gaps: for a low_coverage gap the "Add more FAQs to category"
\* sentence with the gap's category, current_count and recommended_min, for a
\* low_priority gap the "Review and prioritize FAQs in category" sentence with
\* the gap's category and its average priority to one decimal
OneRecommendationPerGap ==
    phase \in {"Saving", "Done"} =>
        /\ Len(recommendations) = Len(gaps)
        /\ \A k \in 1..Len(gaps) :
              LET g == gaps[k]
                  r == recommendations[k]
              IN  /\ r.category = g.category
                  /\ g.type = "low_coverage"
                        => /\ r.tmpl = "Add more FAQs to category"
                           /\ r.currently = g.current_count
                           /\ r.recommend = g.recommended_min
                  /\ g.type = "low_priority"
                        => /\ r.tmpl = "Review and prioritize FAQs in category"
                           /\ LET d == 10 * g.avg_priority.num
                                         - r.average_priority * g.avg_priority.den
                              IN  2 * d <= g.avg_priority.den /\ -2 * d <= g.avg_priority.den

\* recommendations were made for a low_coverage gap followed by a low_priority
\* gap of average 1.5
OneRecommendationPerGapWitness ==
    /\ phase = "Saving"
    /\ Len(gaps) = 2
    /\ gaps[1].type = "low_coverage" /\ gaps[1].current_count = 2
    /\ gaps[2].type = "low_priority"
    /\ recommendations[1].currently = 2
    /\ recommendations[2].average_priority = 15

\* C19: under every interleaving of the callers' get_response calls the
\* history has even length and alternates user, assistant; it changes only
\* when a call completes successfully, by that call's user message followed at
\* once by the reply to it, so the exchanges are stored in the order in which
\* the calls complete
HistoryAlternates ==
    /\ [](/\ Len(conversation_history) % 2 = 0
          /\ \A i \in 1..Len(conversation_history) :
                conversation_history[i].role = (IF i % 2 = 1 THEN "user" ELSE "assistant"))
    /\ [][conversation_history' # conversation_history =>
            \E c \in Callers :
               /\ chat[c].pc = "awaiting" /\ chat'[c].pc = "returned" /\ chat'[c].result.ok
               /\ conversation_history' =
                     conversation_history \o
                        <<[role |-> "user", content |-> chat[c].message],
                          [role |-> "assistant", content |-> chat'[c].result.text]>>]_vars

\* the calls of A and B were both in flight before either was answered (neither
\* prompt holds any history), B's was answered first, and the history holds
\* B's exchange before A's
HistoryAlternatesWitness ==
    /\ chat["A"].pc = "returned" /\ chat["A"].result.ok /\ chat["A"].n = 1
    /\ chat["B"].pc = "returned" /\ chat["B"].result.ok /\ chat["B"].n = 1
    /\ Len(chat["A"].messages) = 2 /\ Len(chat["B"].messages) = 2
    /\ chat["A"].message = "hello" /\ chat["B"].message = "help"
    /\ Len(conversation_history) = 4
    /\ conversation_history[1].content = "help"
    /\ conversation_history[2].content = chat["B"].result.text
    /\ conversation_history[3].content = "hello"
    /\ conversation_history[4].content = chat["A"].result.text

\* C20: in the gaps list every low_coverage gap comes before every
\* low_priority gap, the gaps of one type are in the order of their clusters,
\* a low_coverage gap has current_count < 3 and recommended_min = 5, and there
\* are no more gaps than clusters
GapsOrderedByType ==
    phase \in {"Recommending", "Saving", "Done"} =>
        /\ \A j, k \in 1..Len(gaps) :
              /\ (gaps[j].type = "low_coverage" /\ gaps[k].type = "low_priority") => j < k
              /\ (gaps[j].type = gaps[k].type /\ j < k)
                    => \E m, n \in 1..Len(clusters) :
                          /\ m < n
                          /\ clusters[m].name = gaps[j].category
                          /\ clusters[n].name = gaps[k].category
        /\ \A k \in 1..Len(gaps) :
              gaps[k].type = "low_coverage"
                 => gaps[k].current_count < 3 /\ gaps[k].recommended_min = 5
        /\ Len(gaps) <= Len(clusters)

\* the first cluster has a low_priority gap and the second a low_coverage gap:
\* the gap of the second cluster is first in the list
GapsOrderedByTypeWitness ==
    /\ phase = "Recommending"
    /\ Len(clusters) = 2
    /\ Len(gaps) = 2
    /\ gaps[1].type = "low_coverage" /\ gaps[1].category = clusters[2].name
    /\ gaps[2].type = "low_priority" /\ gaps[2].category = clusters[1].name

\* C21: every cluster built by create_clusters has count >= 1, which is the
\* divisor of its avg_priority; a run that loads no FAQ, or keeps none of those
\* it loads, does not fail in clustering, gap detection or recommending, and
\* the report it writes has no clusters, no gaps, no recommendations and
\* summary.total_faqs = 0
ClustersAreNeverEmpty ==
    /\ [](\A i \in 1..Len(clusters) :
             /\ clusters[i].count >= 1
             /\ clusters[i].count = Len(clusters[i].faqs)
             /\ clusters[i].avg_priority.den = clusters[i].count)
    /\ [][(analyzed = <<>> /\ phase \in {"Clustering", "GapDetection", "Recommending"})
            => phase' # "Failed"]_vars
    /\ [][(analyzed = <<>> /\ phase = "Saving" /\ phase' = "Done")
            => LET r == files'[FileName(now)].report
               IN  /\ files'[FileName(now)].state = "complete"
                   /\ r.clusters = <<>> /\ r.gaps = <<>> /\ r.recommendations = <<>>
                   /\ r.summary.total_faqs = 0]_vars

\* two FAQs were loaded, the analysis of both raised, and the run is Done with
\* a report of no clusters
ClustersAreNeverEmptyWitness ==
    /\ phase = "Done"
    /\ Len(faqs) = 2
    /\ raised = {1, 2}
    /\ analyzed = <<>>
    /\ \E n \in CompleteFiles : files[n].report.summary.total_faqs = 0

(***************************************************************************)
(* services/whisper.py speech_to_text, statement by statement.  temp_file  *)
(* is the state of the temporary file on disk: "none" before it is         *)
(* created, "exists" from NamedTemporaryFile(delete=False) on, "deleted"   *)
(* after os.unlink.                                                        *)
(***************************************************************************)
Languages == {"None", "en"}

Prompts == {"None", "names of relatives"}

\* the except clause of lines 56-58: print and return ""
ReturnEmpty == [stt EXCEPT !.pc = "returned", !.failed = TRUE, !.text = ""]

\* line 29: the with statement creates and opens the temporary file
CreateTempFile ==
    /\ stt.pc = "called"
    /\ \E ok \in BOOLEAN :
          IF ok THEN stt' = [stt EXCEPT !.pc = "writing", !.temp_file = "exists"]
          ELSE stt' = ReturnEmpty
    /\ UNCHANGED <<batchVars, tts, wav, sent, conversation_history, chat>>

\* lines 30-31: temp_file.write(audio_data); leaving the with block closes the
\* file and, with delete=False, keeps it; an exception of write goes to the
\* outer except clause, past the try/finally that has not been entered
WriteAudio ==
    /\ stt.pc = "writing"
    /\ \E ok \in BOOLEAN :
          IF ok THEN stt' = [stt EXCEPT !.pc = "transcribing file", !.written = stt.audio_data]
          ELSE stt' = ReturnEmpty
    /\ UNCHANGED <<batchVars, tts, wav, sent, conversation_history, chat>>

\* lines 33-50: the parameters are built, the file opened and the Whisper API
\* awaited; whatever happens, the finally clause is next
TranscribeFile ==
    /\ stt.pc = "transcribing file"
    /\ \E outcome \in WhisperOutcomes \cup {"open raises"} :
          stt' = [stt EXCEPT !.pc = "finally",
                             !.params = {"model", "file", "response_format"}
                                        \cup (IF stt.language # "None" THEN {"language"} ELSE {})
                                        \cup (IF stt.prompt # "None" THEN {"prompt"} ELSE {}),
                             !.failed = outcome \notin Transcripts,
                             !.text = IF outcome \in Transcripts THEN outcome ELSE ""]
    /\ UNCHANGED <<batchVars, tts, wav, sent, conversation_history, chat>>

\* lines 52-54: os.unlink(temp_file_path), then the return of line 50 or the
\* except clause
UnlinkTempFile ==
    /\ stt.pc = "finally"
    /\ stt' = [stt EXCEPT !.pc = "returned", !.temp_file = "deleted"]
    /\ UNCHANGED <<batchVars, tts, wav, sent, conversation_history, chat>>

InitTranscribe ==
    /\ \E a \in Uploads, l \in Languages, p \in Prompts :
          stt = [pc |-> "called", audio_data |-> a, language |-> l, prompt |-> p,
                 temp_file |-> "none", written |-> <<>>, params |-> {}, failed |-> FALSE,
                 text |-> ""]
    /\ BatchOff
    /\ tts = Off /\ wav = Off /\ sent = Off
    /\ conversation_history = <<>>
    /\ chat = Off

NextTranscribe == CreateTempFile \/ WriteAudio \/ TranscribeFile \/ UnlinkTempFile

SpecTranscribe == InitTranscribe /\ [][NextTranscribe]_vars

\* C22: when speech_to_text returns, the temporary file it created is no
\* longer on disk, whether the transcription succeeded, failed, or the audio
\* bytes could not be written; after a failure the text returned is ""
TempFileDeletedOnReturn ==
    stt.pc = "returned" =>
        /\ stt.temp_file # "exists"
        /\ stt.failed => stt.text = ""

====
